---- MODULE Spec2Model ----
(***************************************************************************)
(* Tutorial02_Cube: the sample driver of src/src/Tutorial02_Cube.cpp.      *)
(*                                                                         *)
(* The driver has three entry points, Initialize, Update and Render, that  *)
(* an external application loop calls on one thread.  The state is the     *)
(* driver's members, the objects it created on the render device, and the  *)
(* engine calls of the last Initialize and of the last frame.              *)
(*                                                                         *)
(* Floats are fixed-point integers: a float f of the matrix pipeline is    *)
(* the integer f * One (three decimals); the literal vertex data keeps     *)
(* eight decimals of each initialiser (units of 10^-8).                    *)
(***************************************************************************)
EXTENDS Integers, Sequences, FiniteSets, TLC

VARIABLES
    initialized,                \* Initialize has run
    m_ConvertPSOutputToGamma,   \* SampleBase member, set by SampleBase::Initialize
    isGL,                       \* m_pDevice->GetDeviceInfo().NDC.MinZ == -1
    swapChainDesc,              \* m_pSwapChain->GetDesc(): PreTransform, Width, Height
    deviceObjects,              \* objects created on m_pDevice, in creation order
    m_VSConstants,              \* handles: position in deviceObjects, 0 is null
    m_pPSO,
    m_pSRB,
    m_CubeVertexBuffer,
    m_CubeIndexBuffer,
    m_WorldViewProjMatrix,
    initCalls,                  \* engine calls made by Initialize, in order
    frameCalls,                 \* engine calls made by the last Render, in order
    lastUpdate                  \* the last Update: its CurrTime, the swap chain it
                                \* read, its result, and whether the Update before
                                \* it had the same CurrTime and swap chain

vars == <<initialized, m_ConvertPSOutputToGamma, isGL, swapChainDesc, deviceObjects,
          m_VSConstants, m_pPSO, m_pSRB, m_CubeVertexBuffer, m_CubeIndexBuffer,
          m_WorldViewProjMatrix, initCalls, frameCalls, lastUpdate>>

\* ------------------------------------------------------------------ bounds
MaxTimeSteps == 2

MaxElapsedSteps == 1

\* CurrTime values passed to Update: whole seconds, fixed-point
Times == {k * 1000 : k \in 0..MaxTimeSteps}

\* ElapsedTime values passed to Update: multiples of 16 ms
ElapsedTimes == {k * 16 : k \in 0..MaxElapsedSteps}

\* the swap-chain descriptions the application moves between: a landscape and a
\* portrait window, and surfaces pre-rotated by 90, 180 and 270 degrees
SwapChainDescs ==
    { [PreTransform |-> "IDENTITY", Width |-> 1280, Height |-> 720],
      [PreTransform |-> "IDENTITY", Width |-> 720, Height |-> 1280],
      [PreTransform |-> "ROTATE_90", Width |-> 720, Height |-> 1280],
      [PreTransform |-> "ROTATE_180", Width |-> 1280, Height |-> 720],
      [PreTransform |-> "ROTATE_270", Width |-> 720, Height |-> 1280] }

\* ------------------------------------------------------ fixed-point floats
One == 1000

PI_F == 3142

Mul(a, b) == (a * b) \div One

Div(a, b) == (a * One) \div b

\* sin and cos on [-PI/2, PI/2] by their Taylor series
SinSeries(x) ==
    LET x2 == Mul(x, x)
        t3 == Mul(x, x2) \div 6
        t5 == Mul(t3, x2) \div 20
        t7 == Mul(t5, x2) \div 42
        t9 == Mul(t7, x2) \div 72
    IN  x - t3 + t5 - t7 + t9

CosSeries(x) ==
    LET x2 == Mul(x, x)
        c2 == x2 \div 2
        c4 == Mul(c2, x2) \div 12
        c6 == Mul(c4, x2) \div 30
        c8 == Mul(c6, x2) \div 56
    IN  One - c2 + c4 - c6 + c8

\* the angle brought into [-PI, PI]
RECURSIVE WrapAngle(_)
WrapAngle(x) ==
    IF x > PI_F THEN WrapAngle(x - 2 * PI_F)
    ELSE IF x < -PI_F THEN WrapAngle(x + 2 * PI_F)
    ELSE x

Sin(x) ==
    LET w == WrapAngle(x)
    IN  IF w > PI_F \div 2 THEN SinSeries(PI_F - w)
        ELSE IF w < -(PI_F \div 2) THEN SinSeries(-PI_F - w)
        ELSE SinSeries(w)

Cos(x) ==
    LET w == WrapAngle(x)
    IN  IF w > PI_F \div 2 THEN -CosSeries(PI_F - w)
        ELSE IF w < -(PI_F \div 2) THEN -CosSeries(-PI_F - w)
        ELSE CosSeries(w)

Tan(x) == Div(Sin(x), Cos(x))

\* the largest y in lo..hi with y * y <= target (cube = FALSE) or
\* y * y * y <= target (cube = TRUE), by bisection
RECURSIVE RootSearch(_, _, _, _)
RootSearch(lo, hi, target, cube) ==
    IF lo >= hi THEN lo
    ELSE LET mid == (lo + hi + 1) \div 2
             power == IF cube THEN mid * mid * mid ELSE mid * mid
         IN  IF power <= target THEN RootSearch(mid, hi, target, cube)
             ELSE RootSearch(lo, mid - 1, target, cube)

\* square and cube roots of a fixed-point value in [0, 1]
Sqrt(x) == RootSearch(0, One, x * One, FALSE)

Cbrt(x) == RootSearch(0, One, x * One * One, TRUE)

\* ---------------------------------------------------------------- float4x4
ZeroMatrix ==
    << <<0, 0, 0, 0>>, <<0, 0, 0, 0>>, <<0, 0, 0, 0>>, <<0, 0, 0, 0>> >>

Identity ==
    << <<One, 0, 0, 0>>, <<0, One, 0, 0>>, <<0, 0, One, 0>>, <<0, 0, 0, One>> >>

\* element (i, j) of the product A * B
Dot(A, B, i, j) ==
    Mul(A[i][1], B[1][j]) + Mul(A[i][2], B[2][j])
  + Mul(A[i][3], B[3][j]) + Mul(A[i][4], B[4][j])

MatRow(A, B, i) == <<Dot(A, B, i, 1), Dot(A, B, i, 2), Dot(A, B, i, 3), Dot(A, B, i, 4)>>

\* float4x4 operator*
MatMul(A, B) == <<MatRow(A, B, 1), MatRow(A, B, 2), MatRow(A, B, 3), MatRow(A, B, 4)>>

RotationX(angle) ==
    LET s == Sin(angle)
        c == Cos(angle)
    IN  << <<One, 0, 0, 0>>,
           <<0, c, s, 0>>,
           <<0, -s, c, 0>>,
           <<0, 0, 0, One>> >>

RotationY(angle) ==
    LET s == Sin(angle)
        c == Cos(angle)
    IN  << <<c, 0, -s, 0>>,
           <<0, One, 0, 0>>,
           <<s, 0, c, 0>>,
           <<0, 0, 0, One>> >>

RotationZ(angle) ==
    LET s == Sin(angle)
        c == Cos(angle)
    IN  << <<c, s, 0, 0>>,
           <<-s, c, 0, 0>>,
           <<0, 0, One, 0>>,
           <<0, 0, 0, One>> >>

Translation(x, y, z) ==
    << <<One, 0, 0, 0>>,
       <<0, One, 0, 0>>,
       <<0, 0, One, 0>>,
       <<x, y, z, One>> >>

\* SampleBase::GetSurfacePretransformMatrix(float3{0, 0, 1}): a rotation about
\* the camera view axis Z by the surface's pre-rotation
GetSurfacePretransformMatrix(desc) ==
    CASE desc.PreTransform = "ROTATE_90"  -> RotationZ(-(PI_F \div 2))
      [] desc.PreTransform = "ROTATE_180" -> RotationZ(-PI_F)
      [] desc.PreTransform = "ROTATE_270" -> RotationZ(-((PI_F * 3) \div 2))
      [] OTHER -> Identity

\* SampleBase::GetAdjustedProjectionMatrix(FOV, NearPlane, FarPlane)
GetAdjustedProjectionMatrix(desc, gl, FOV, NearPlane, FarPlane) ==
    LET AspectRatio == Div(desc.Width, desc.Height)
        Rotated == desc.PreTransform \in {"ROTATE_90", "ROTATE_270"}
        InvTan == Div(One, Tan(FOV \div 2))
        XScale == IF Rotated THEN InvTan ELSE Div(InvTan, AspectRatio)
        YScale == IF Rotated THEN Mul(InvTan, AspectRatio) ELSE InvTan
        m33 == IF gl THEN Div(FarPlane + NearPlane, FarPlane - NearPlane)
                     ELSE Div(FarPlane, FarPlane - NearPlane)
        m43 == IF gl THEN Div(Mul(-2 * NearPlane, FarPlane), FarPlane - NearPlane)
                     ELSE Div(Mul(-NearPlane, FarPlane), FarPlane - NearPlane)
    IN  << <<XScale, 0, 0, 0>>,
           <<0, YScale, 0, 0>>,
           <<0, 0, m33, One>>,
           <<0, 0, m43, 0>> >>

\* ColorConversion.h LinearToSRGB(float): x <= 0.0031308 ? x * 12.92
\*                                        : 1.055 * pow(x, 1 / 2.4) - 0.055
LinearToSRGBChannel(x) ==
    IF x <= 3 THEN Mul(x, 12920)
    ELSE LET r == Sqrt(Sqrt(Cbrt(x)))          \* x^(1/12)
             p == Mul(Mul(Mul(Mul(r, r), r), r), r)   \* x^(5/12) = x^(1/2.4)
         IN  Mul(1055, p) - 55

\* LinearToSRGB(float4): the three colour channels converted, alpha kept
LinearToSRGB(c) ==
    <<LinearToSRGBChannel(c[1]), LinearToSRGBChannel(c[2]), LinearToSRGBChannel(c[3]), c[4]>>

\* ------------------------------------------------------- literal mesh data
forest == <<4313725, 40000000, 13725490, 100000000>>

dark == <<18823529, 47843137, 5490196, 100000000>>

kelly == <<29803921, 73333333, 9019607, 100000000>>

brown == <<54900000, 27500000, 3100000, 100000000>>

darkBrown == <<22000000, 9800000, 5100000, 100000000>>

\* struct Vertex { float3 pos; float4 color; }
V(x, y, z, color) == [pos |-> <<x, y, z>>, color |-> color]

SizeofFloat == 4

SizeofVertex == (3 + 4) * SizeofFloat

SizeofUint32 == 4

SizeofFloat4x4 == 16 * SizeofFloat

CubeVerts ==
    <<
        V(0, 125000000, 0, kelly),
        V(0, 50000000, 50000000, kelly),
        V(12500000, 50000000, 21650635, forest),
        V(43301270, 50000000, 25000000, kelly),
        V(25000000, 50000000, 0, forest),
        V(43301270, 50000000, -25000000, kelly),
        V(12500000, 50000000, -21650635, forest),
        V(0, 50000000, -50000000, kelly),
        V(-12500000, 50000000, -21650635, forest),
        V(-43301270, 50000000, -25000000, kelly),
        V(-25000000, 50000000, 0, forest),
        V(-43301270, 50000000, 25000000, kelly),
        V(-12500000, 50000000, 21650635, forest),
        V(0, 75000000, 0, dark),
        V(0, 0, 37500000, forest),
        V(37500000, 0, 64951905, kelly),
        V(32475953, 0, 18750000, forest),
        V(75000000, 0, 0, kelly),
        V(32475953, 0, -18750000, forest),
        V(37500000, 0, -64951905, kelly),
        V(0, 0, -37500000, forest),
        V(-37500000, 0, -64951905, kelly),
        V(-32475953, 0, -18750000, forest),
        V(-75000000, 0, 0, kelly),
        V(-32475953, 0, 18750000, forest),
        V(-37500000, 0, 64951905, kelly),
        V(0, 25000000, 0, dark),
        V(0, -50000000, 90000000, kelly),
        V(22500000, -50000000, 38971143, forest),
        V(77942300, -50000000, 45000000, kelly),
        V(45000000, -50000000, 0, forest),
        V(77942300, -50000000, -45000000, kelly),
        V(22500000, -50000000, -38971143, forest),
        V(0, -50000000, -90000000, kelly),
        V(-22500000, -50000000, -38971143, forest),
        V(-77942300, -50000000, -45000000, kelly),
        V(-45000000, -50000000, 0, forest),
        V(-77942300, -50000000, 45000000, kelly),
        V(-22500000, -50000000, 38971143, forest),
        V(0, -50000000, 10000000, brown),
        V(-8660254, -50000000, -5000000, brown),
        V(8660254, -50000000, -5000000, brown),
        V(0, -100000000, 10000000, brown),
        V(-8660254, -100000000, -5000000, brown),
        V(8660254, -100000000, -5000000, brown),
        V(4330127, -100000000, 2500000, brown),
        V(-4330127, -100000000, 2500000, brown),
        V(0, -100000000, -5000000, brown),
        V(0, -100000000, 30000000, darkBrown),
        V(-25980800, -100000000, -15000000, darkBrown),
        V(25980800, -100000000, -15000000, darkBrown),
        V(0, -80000000, 10000000, brown),
        V(-8660254, -80000000, -5000000, brown),
        V(8660254, -80000000, -5000000, brown)
    >>

Indices ==
    <<
        0, 1, 2, 0, 2, 3, 0, 3, 4, 0, 4, 5,
        0, 5, 6, 0, 6, 7, 0, 7, 8, 0, 8, 9,
        0, 9, 10, 0, 10, 11, 0, 11, 12, 0, 12, 1,
        13, 14, 15, 13, 15, 16, 13, 16, 17, 13, 17, 18,
        13, 18, 19, 13, 19, 20, 13, 20, 21, 13, 21, 22,
        13, 22, 23, 13, 23, 24, 13, 24, 25, 13, 25, 14,
        26, 27, 28, 26, 28, 29, 26, 29, 30, 26, 30, 31,
        26, 31, 32, 26, 32, 33, 26, 33, 34, 26, 34, 35,
        26, 35, 36, 26, 36, 37, 26, 37, 38, 26, 38, 27,
        39, 40, 42, 42, 40, 43, 41, 39, 42, 41, 42, 44,
        41, 44, 40, 40, 44, 43, 51, 46, 48, 51, 48, 45,
        52, 49, 46, 52, 47, 49, 53, 45, 50, 53, 50, 47
    >>

\* --------------------------------------------------------- render device
\* a device is the objects created so far and the calls received so far.
\* IRenderDevice::CreateShader, CreateBuffer, CreateGraphicsPipelineState and
\* IPipelineState::CreateShaderResourceBinding append one object; the handle
\* returned is the object's position
CreateObject(dev, obj, call) ==
    [objs |-> Append(dev.objs, obj), calls |-> Append(dev.calls, call)]

LastHandle(dev) == Len(dev.objs)

CreateShader(dev, name, type, path, macros) ==
    CreateObject(dev,
        [kind |-> "Shader", Name |-> name, ShaderType |-> type, FilePath |-> path,
         EntryPoint |-> "main", SourceLanguage |-> "HLSL", Macros |-> macros],
        [op |-> "CreateShader", name |-> name])

CreateBuffer(dev, desc, dataSize, data) ==
    CreateObject(dev,
        [kind |-> "Buffer", Name |-> desc.Name, Usage |-> desc.Usage,
         BindFlags |-> desc.BindFlags, Size |-> desc.Size,
         DataSize |-> dataSize, Data |-> data],
        [op |-> "CreateBuffer", name |-> desc.Name])

\* IShaderResourceVariable::Set on a static variable of the pipeline state
SetStaticVariable(dev, pso, name, buffer) ==
    [objs |-> [dev.objs EXCEPT ![pso].StaticVars = [v \in {name} |-> buffer]],
     calls |-> Append(dev.calls, [op |-> "SetStaticVariable", name |-> name])]

\* IPipelineState::CreateShaderResourceBinding(&pSRB, InitStaticResources)
CreateShaderResourceBinding(dev, pso, initStaticResources) ==
    CreateObject(dev,
        [kind |-> "SRB", PSO |-> pso,
         Bound |-> IF initStaticResources THEN dev.objs[pso].StaticVars
                   ELSE [v \in {} |-> 0]],
        [op |-> "CreateShaderResourceBinding", name |-> dev.objs[pso].Name])

\* ---------------------------------------------------------- CreatePipelineState
CreatePipelineState(dev0, gamma) ==
    LET Macros == [m \in {"CONVERT_PS_OUTPUT_TO_GAMMA"} |-> IF gamma THEN "1" ELSE "0"]
        dev1 == CreateShader(dev0, "Cube VS", "SHADER_TYPE_VERTEX", "cube.vsh", Macros)
        pVS == LastHandle(dev1)
        CBDesc == [Name |-> "VS constants CB", Size |-> SizeofFloat4x4,
                   Usage |-> "USAGE_DYNAMIC", BindFlags |-> "BIND_UNIFORM_BUFFER"]
        dev2 == CreateBuffer(dev1, CBDesc, 0, <<>>)
        VSConstants == LastHandle(dev2)
        dev3 == CreateShader(dev2, "Cube PS", "SHADER_TYPE_PIXEL", "cube.psh", Macros)
        pPS == LastHandle(dev3)
        LayoutElems == << [InputIndex |-> 0, BufferSlot |-> 0, NumComponents |-> 3,
                           ValueType |-> "VT_FLOAT32"],
                          [InputIndex |-> 1, BufferSlot |-> 0, NumComponents |-> 4,
                           ValueType |-> "VT_FLOAT32"] >>
        dev4 == CreateObject(dev3,
                    [kind |-> "PSO", Name |-> "Cube PSO",
                     PipelineType |-> "PIPELINE_TYPE_GRAPHICS",
                     NumRenderTargets |-> 1,
                     PrimitiveTopology |-> "PRIMITIVE_TOPOLOGY_TRIANGLE_LIST",
                     CullMode |-> "CULL_MODE_BACK", DepthEnable |-> TRUE,
                     LayoutElements |-> LayoutElems, pVS |-> pVS, pPS |-> pPS,
                     DefaultVariableType |-> "SHADER_RESOURCE_VARIABLE_TYPE_STATIC",
                     StaticVars |-> [v \in {} |-> 0]],
                    [op |-> "CreateGraphicsPipelineState", name |-> "Cube PSO"])
        pPSO == LastHandle(dev4)
        dev5 == SetStaticVariable(dev4, pPSO, "Constants", VSConstants)
        dev6 == CreateShaderResourceBinding(dev5, pPSO, TRUE)
    IN  [dev |-> dev6, m_VSConstants |-> VSConstants, m_pPSO |-> pPSO,
         m_pSRB |-> LastHandle(dev6)]

\* ----------------------------------------------------------- CreateVertexBuffer
\* faulty variant: the declared size counts the position floats only
CreateVertexBuffer_SizeMut(dev) ==
    LET VertBuffDesc == [Name |-> "Cube vertex buffer", Usage |-> "USAGE_IMMUTABLE",
                         BindFlags |-> "BIND_VERTEX_BUFFER",
                         Size |-> Len(CubeVerts) * 3 * SizeofFloat]
        dev1 == CreateBuffer(dev, VertBuffDesc, Len(CubeVerts) * SizeofVertex, CubeVerts)
    IN  [dev |-> dev1, m_CubeVertexBuffer |-> LastHandle(dev1)]

CreateVertexBuffer(dev) ==
    LET VertBuffDesc == [Name |-> "Cube vertex buffer", Usage |-> "USAGE_IMMUTABLE",
                         BindFlags |-> "BIND_VERTEX_BUFFER",
                         Size |-> Len(CubeVerts) * SizeofVertex]
        dev1 == CreateBuffer(dev, VertBuffDesc, Len(CubeVerts) * SizeofVertex, CubeVerts)
    IN  [dev |-> dev1, m_CubeVertexBuffer |-> LastHandle(dev1)]

\* ------------------------------------------------------------ CreateIndexBuffer
\* faulty variant: the indices uploaded count vertices from 1
CreateIndexBuffer_OneBasedMut(dev) ==
    LET IndBuffDesc == [Name |-> "Cube index buffer", Usage |-> "USAGE_IMMUTABLE",
                        BindFlags |-> "BIND_INDEX_BUFFER",
                        Size |-> Len(Indices) * SizeofUint32]
        OneBased == [i \in 1..Len(Indices) |-> Indices[i] + 1]
        dev1 == CreateBuffer(dev, IndBuffDesc, Len(Indices) * SizeofUint32, OneBased)
    IN  [dev |-> dev1, m_CubeIndexBuffer |-> LastHandle(dev1)]

CreateIndexBuffer(dev) ==
    LET IndBuffDesc == [Name |-> "Cube index buffer", Usage |-> "USAGE_IMMUTABLE",
                        BindFlags |-> "BIND_INDEX_BUFFER",
                        Size |-> Len(Indices) * SizeofUint32]
        dev1 == CreateBuffer(dev, IndBuffDesc, Len(Indices) * SizeofUint32, Indices)
    IN  [dev |-> dev1, m_CubeIndexBuffer |-> LastHandle(dev1)]

\* ------------------------------------------------------------------- Initialize
\* Initialize(InitInfo): the base class initialisation, which sets
\* m_ConvertPSOutputToGamma from the swap chain's colour format, then the three
\* Create* methods in order
\* faulty variant: the mesh buffers are created before the pipeline state
InitializeSteps_BuffersFirstMut(gamma) ==
    LET dev0 == [objs |-> deviceObjects,
                 calls |-> <<[op |-> "SampleBase::Initialize", name |-> "InitInfo"]>>]
        vb == CreateVertexBuffer(dev0)
        ib == CreateIndexBuffer(vb.dev)
        pso == CreatePipelineState(ib.dev, gamma)
    IN  [dev |-> pso.dev, m_VSConstants |-> pso.m_VSConstants, m_pPSO |-> pso.m_pPSO,
         m_pSRB |-> pso.m_pSRB, m_CubeVertexBuffer |-> vb.m_CubeVertexBuffer,
         m_CubeIndexBuffer |-> ib.m_CubeIndexBuffer]

InitializeSteps(gamma) ==
    LET dev0 == [objs |-> deviceObjects,
                 calls |-> <<[op |-> "SampleBase::Initialize", name |-> "InitInfo"]>>]
        pso == CreatePipelineState(dev0, gamma)
        vb == CreateVertexBuffer(pso.dev)
        ib == CreateIndexBuffer(vb.dev)
    IN  [dev |-> ib.dev, m_VSConstants |-> pso.m_VSConstants, m_pPSO |-> pso.m_pPSO,
         m_pSRB |-> pso.m_pSRB, m_CubeVertexBuffer |-> vb.m_CubeVertexBuffer,
         m_CubeIndexBuffer |-> ib.m_CubeIndexBuffer]

Initialize(gamma) ==
    /\ ~initialized
    /\ LET r == InitializeSteps(gamma)
       IN  /\ deviceObjects' = r.dev.objs
           /\ initCalls' = r.dev.calls
           /\ m_VSConstants' = r.m_VSConstants
           /\ m_pPSO' = r.m_pPSO
           /\ m_pSRB' = r.m_pSRB
           /\ m_CubeVertexBuffer' = r.m_CubeVertexBuffer
           /\ m_CubeIndexBuffer' = r.m_CubeIndexBuffer
    /\ m_ConvertPSOutputToGamma' = gamma
    /\ initialized' = TRUE
    /\ UNCHANGED <<isGL, swapChainDesc, m_WorldViewProjMatrix, frameCalls, lastUpdate>>

\* ----------------------------------------------------------------------- Update
\* the world-view-projection matrix Update computes
\* faulty variant: the rotation angle also advances by ElapsedTime
WorldViewProj_ElapsedMut(CurrTime, ElapsedTime, desc, gl) ==
    LET CubeModelTransform ==
            MatMul(RotationY(Mul(CurrTime + ElapsedTime, 500)), RotationX(Mul(-PI_F, 100)))
        View == Translation(0, 250, 5000)
        SrfPreTransform == GetSurfacePretransformMatrix(desc)
        Proj == GetAdjustedProjectionMatrix(desc, gl, PI_F \div 4, 100, 100000)
    IN  MatMul(MatMul(MatMul(CubeModelTransform, View), SrfPreTransform), Proj)

WorldViewProj(CurrTime, ElapsedTime, desc, gl) ==
    LET CubeModelTransform ==
            MatMul(RotationY(Mul(CurrTime, 500)), RotationX(Mul(-PI_F, 100)))
        View == Translation(0, 250, 5000)
        SrfPreTransform == GetSurfacePretransformMatrix(desc)
        Proj == GetAdjustedProjectionMatrix(desc, gl, PI_F \div 4, 100, 100000)
    IN  MatMul(MatMul(MatMul(CubeModelTransform, View), SrfPreTransform), Proj)

Update(CurrTime, ElapsedTime) ==
    /\ initialized
    /\ m_WorldViewProjMatrix' = WorldViewProj(CurrTime, ElapsedTime, swapChainDesc, isGL)
    /\ lastUpdate' = [time |-> CurrTime, desc |-> swapChainDesc,
                      wvp |-> m_WorldViewProjMatrix',
                      repeated |-> (lastUpdate.time = CurrTime
                                    /\ lastUpdate.desc = swapChainDesc)]
    /\ UNCHANGED <<initialized, m_ConvertPSOutputToGamma, isGL, swapChainDesc,
                   deviceObjects, m_VSConstants, m_pPSO, m_pSRB, m_CubeVertexBuffer,
                   m_CubeIndexBuffer, initCalls, frameCalls>>

\* ----------------------------------------------------------------------- Render
\* the colour Render clears the back buffer with
\* faulty variant: the gamma test inverted
ClearColor_InvertedMut(gamma) ==
    LET Linear == <<350, 350, 350, One>>
    IN  IF ~gamma THEN LinearToSRGB(Linear) ELSE Linear

ClearColor(gamma) ==
    LET Linear == <<350, 350, 350, One>>
    IN  IF gamma THEN LinearToSRGB(Linear) ELSE Linear

\* faulty variant: the index count of a plain cube, 36
DrawAttrs_CubeCountMut == [IndexType |-> "VT_UINT32", NumIndices |-> 36,
                           Flags |-> "DRAW_FLAG_VERIFY_ALL"]

DrawAttrs == [IndexType |-> "VT_UINT32", NumIndices |-> 144,
              Flags |-> "DRAW_FLAG_VERIFY_ALL"]

\* the two clears Render starts with
ClearCommands ==
    << [op |-> "ClearRenderTarget", view |-> "CurrentBackBufferRTV",
        color |-> ClearColor(m_ConvertPSOutputToGamma)],
       [op |-> "ClearDepthStencil", view |-> "DepthBufferDSV",
        flags |-> "CLEAR_DEPTH_FLAG", depth |-> One, stencil |-> 0] >>

\* the MapHelper scope: map m_VSConstants, assign the matrix, unmap
\* faulty variant: the mapped buffer is given the identity, not the member
UniformWrite_IdentityMut ==
    << [op |-> "MapBuffer", buffer |-> m_VSConstants, mapType |-> "MAP_WRITE",
        flags |-> "MAP_FLAG_DISCARD"],
       [op |-> "WriteMapped", buffer |-> m_VSConstants, data |-> Identity],
       [op |-> "UnmapBuffer", buffer |-> m_VSConstants] >>

\* faulty variant: the vertex buffer is mapped in place of m_VSConstants
UniformWrite_WrongBufferMut ==
    << [op |-> "MapBuffer", buffer |-> m_CubeVertexBuffer, mapType |-> "MAP_WRITE",
        flags |-> "MAP_FLAG_DISCARD"],
       [op |-> "WriteMapped", buffer |-> m_CubeVertexBuffer,
        data |-> m_WorldViewProjMatrix],
       [op |-> "UnmapBuffer", buffer |-> m_CubeVertexBuffer] >>

UniformWrite ==
    << [op |-> "MapBuffer", buffer |-> m_VSConstants, mapType |-> "MAP_WRITE",
        flags |-> "MAP_FLAG_DISCARD"],
       [op |-> "WriteMapped", buffer |-> m_VSConstants, data |-> m_WorldViewProjMatrix],
       [op |-> "UnmapBuffer", buffer |-> m_VSConstants] >>

\* vertex and index buffers, pipeline state, shader resources
BindCommands ==
    << [op |-> "SetVertexBuffers", start |-> 0, buffers |-> <<m_CubeVertexBuffer>>,
        offsets |-> <<0>>, flags |-> "SET_VERTEX_BUFFERS_FLAG_RESET"],
       [op |-> "SetIndexBuffer", buffer |-> m_CubeIndexBuffer, offset |-> 0],
       [op |-> "SetPipelineState", pso |-> m_pPSO],
       [op |-> "CommitShaderResources", srb |-> m_pSRB] >>

DrawCommands == << [op |-> "DrawIndexed", attrs |-> DrawAttrs] >>

\* the calls Render makes on m_pImmediateContext, in program order
\* faulty variant: the draw is issued before the buffers and pipeline are bound
RenderCommands_DrawEarlyMut == ClearCommands \o UniformWrite \o DrawCommands \o BindCommands

RenderCommands == ClearCommands \o UniformWrite \o BindCommands \o DrawCommands

\* the effect of a list of context calls on the device's objects: only a write
\* through a mapped buffer changes an object
RECURSIVE Execute(_, _)
Execute(objs, cmds) ==
    IF cmds = <<>> THEN objs
    ELSE LET c == Head(cmds)
             next == IF c.op = "WriteMapped"
                     THEN [objs EXCEPT ![c.buffer].Data = c.data]
                     ELSE objs
         IN  Execute(next, Tail(cmds))

Render ==
    /\ initialized
    /\ LET cmds == RenderCommands
       IN  /\ frameCalls' = cmds
           /\ deviceObjects' = Execute(deviceObjects, cmds)
    /\ UNCHANGED <<initialized, m_ConvertPSOutputToGamma, isGL, swapChainDesc,
                   m_VSConstants, m_pPSO, m_pSRB, m_CubeVertexBuffer, m_CubeIndexBuffer,
                   m_WorldViewProjMatrix, initCalls, lastUpdate>>

\* ------------------------------------------------------------------ environment
\* the externally owned swap chain is resized or rotated between frames
WindowResize(desc) ==
    /\ desc # swapChainDesc
    /\ swapChainDesc' = desc
    /\ UNCHANGED <<initialized, m_ConvertPSOutputToGamma, isGL, deviceObjects,
                   m_VSConstants, m_pPSO, m_pSRB, m_CubeVertexBuffer, m_CubeIndexBuffer,
                   m_WorldViewProjMatrix, initCalls, frameCalls, lastUpdate>>

\* ------------------------------------------------------------------------- spec
\* the state after CreateSample(): null handles, a zero matrix
Init ==
    /\ initialized = FALSE
    /\ m_ConvertPSOutputToGamma = FALSE
    /\ isGL \in BOOLEAN
    /\ swapChainDesc \in SwapChainDescs
    /\ deviceObjects = <<>>
    /\ m_VSConstants = 0
    /\ m_pPSO = 0
    /\ m_pSRB = 0
    /\ m_CubeVertexBuffer = 0
    /\ m_CubeIndexBuffer = 0
    /\ m_WorldViewProjMatrix = ZeroMatrix
    /\ initCalls = <<>>
    /\ frameCalls = <<>>
    /\ lastUpdate = [time |-> -1, desc |-> swapChainDesc, wvp |-> ZeroMatrix,
                     repeated |-> FALSE]

Next ==
    \/ \E gamma \in BOOLEAN : Initialize(gamma)
    \/ \E t \in Times, e \in ElapsedTimes : Update(t, e)
    \/ Render
    \/ \E d \in SwapChainDescs : WindowResize(d)

Spec == Init /\ [][Next]_vars

\* ----------------------------------------------------------------- properties
\* the calls of the last frame with the given name
FrameCalls(op) == SelectSeq(frameCalls, LAMBDA c : c.op = op)

OpsOf(calls) == [i \in 1..Len(calls) |-> calls[i].op]

Rendered == frameCalls # <<>>

\* the position of a call of Initialize, 0 when it was not made
InitPos(op, name) ==
    IF \E i \in 1..Len(initCalls) : initCalls[i].op = op /\ initCalls[i].name = name
    THEN CHOOSE i \in 1..Len(initCalls) : initCalls[i].op = op /\ initCalls[i].name = name
    ELSE 0

IsObject(h, kind) == h \in 1..Len(deviceObjects) /\ deviceObjects[h].kind = kind

\* the matrix Update(0, e) would leave if the model rotation were `rotation`
Composition(rotation, desc, gl) ==
    MatMul(MatMul(MatMul(rotation, Translation(0, 250, 5000)),
                  GetSurfacePretransformMatrix(desc)),
           GetAdjustedProjectionMatrix(desc, gl, PI_F \div 4, 100, 100000))

\* C1: every Render, whatever Update calls and time values came before it,
\* submits exactly one DrawIndexed and its NumIndices is 144.
C1_DrawsExactly144 ==
    Rendered =>
        /\ Len(FrameCalls("DrawIndexed")) = 1
        /\ \A i \in 1..Len(frameCalls) :
               frameCalls[i].op = "DrawIndexed" => frameCalls[i].attrs.NumIndices = 144

\* a frame drawn after an Update with a non-zero time and a rotated surface
C1_Witness ==
    /\ Rendered
    /\ lastUpdate.time > 0
    /\ lastUpdate.desc.PreTransform = "ROTATE_270"
    /\ FrameCalls("WriteMapped")[1].data = lastUpdate.wvp

\* C2: after Initialize the vertex buffer holds the 54 vertices of CubeVerts,
\* each 3 position floats and 4 colour floats, the index buffer holds the entries
\* of Indices, and for both the declared Size equals the uploaded DataSize.
C2_BufferSizes ==
    initialized =>
        LET vb == deviceObjects[m_CubeVertexBuffer]
            ib == deviceObjects[m_CubeIndexBuffer]
        IN  /\ Len(CubeVerts) = 54
            /\ vb.Data = CubeVerts
            /\ \A i \in 1..Len(vb.Data) :
                   Len(vb.Data[i].pos) = 3 /\ Len(vb.Data[i].color) = 4
            /\ vb.Size = 54 * 7 * 4
            /\ vb.DataSize = vb.Size
            /\ ib.Data = Indices
            /\ ib.Size = Len(Indices) * 4
            /\ ib.DataSize = ib.Size

C2_Witness ==
    /\ initialized
    /\ IsObject(m_CubeVertexBuffer, "Buffer")
    /\ IsObject(m_CubeIndexBuffer, "Buffer")
    /\ deviceObjects[m_CubeVertexBuffer].Name = "Cube vertex buffer"
    /\ deviceObjects[m_CubeIndexBuffer].Name = "Cube index buffer"

\* C3 as stated: after Update(0, e) the matrix is the composition of an identity
\* rotation, the camera translation and the projection.
C3_IdentityRotationAtZero ==
    lastUpdate.time = 0 =>
        m_WorldViewProjMatrix = Composition(Identity, lastUpdate.desc, isGL)

\* C3 amended: after Update(0, e), for any e, the matrix is
\* RotationX(-PI/10) * Translation(0, 0.25, 5) * SrfPreTransform * Proj: only the
\* rotation about Y contributes nothing at time 0, the fixed tilt about X stays.
C3_TiltOnlyAtZero ==
    lastUpdate.time = 0 =>
        m_WorldViewProjMatrix =
            Composition(RotationX(Mul(-PI_F, 100)), lastUpdate.desc, isGL)

C3_Witness ==
    /\ initialized
    /\ lastUpdate.time = 0
    /\ lastUpdate.desc.PreTransform = "ROTATE_90"
    /\ m_WorldViewProjMatrix # ZeroMatrix

\* C4 as stated: an Update with the same CurrTime as the Update before it leaves
\* the same matrix, whatever the swap-chain state.
C4_FunctionOfTimeOnly ==
    [][lastUpdate'.time = lastUpdate.time
          => m_WorldViewProjMatrix' = m_WorldViewProjMatrix]_vars

\* C4 amended: an Update with the same CurrTime and the same swap-chain
\* description (PreTransform, Width, Height) as the Update before it leaves the same
\* matrix, whatever ElapsedTime, the stored matrix and the Render calls and
\* swap-chain changes between the two.
C4_FunctionOfTimeAndSwapChain ==
    [][(lastUpdate'.time = lastUpdate.time /\ lastUpdate'.desc = lastUpdate.desc)
          => m_WorldViewProjMatrix' = m_WorldViewProjMatrix]_vars

\* two Updates in a row with the same CurrTime and swap chain, a frame of another
\* matrix drawn before them
C4_Witness ==
    /\ lastUpdate.repeated
    /\ lastUpdate.time > 0
    /\ Rendered
    /\ FrameCalls("WriteMapped")[1].data # lastUpdate.wvp

\* C5 as stated: the colour of ClearRenderTarget is the same constant for either
\* value of m_ConvertPSOutputToGamma, and the depth clear value is 1.0.
C5_SameColourForEitherGamma ==
    Rendered =>
        /\ FrameCalls("ClearRenderTarget")[1].color = <<350, 350, 350, 1000>>
        /\ FrameCalls("ClearDepthStencil")[1].depth = 1000

\* C5 amended: the depth clear value is 1.0 in every frame; the colour of
\* ClearRenderTarget is (0.35, 0.35, 0.35, 1) when m_ConvertPSOutputToGamma is
\* false and LinearToSRGB of that colour when it is true.
C5_ColourByGamma ==
    Rendered =>
        /\ Len(FrameCalls("ClearRenderTarget")) = 1
        /\ Len(FrameCalls("ClearDepthStencil")) = 1
        /\ FrameCalls("ClearDepthStencil")[1].depth = 1000
        /\ m_ConvertPSOutputToGamma =>
               FrameCalls("ClearRenderTarget")[1].color =
                   LinearToSRGB(<<350, 350, 350, 1000>>)
        /\ ~m_ConvertPSOutputToGamma =>
               FrameCalls("ClearRenderTarget")[1].color = <<350, 350, 350, 1000>>

C5_Witness ==
    /\ Rendered
    /\ m_ConvertPSOutputToGamma
    /\ FrameCalls("ClearRenderTarget")[1].color # <<350, 350, 350, 1000>>

\* C6: once Initialize has run, no step changes the handle, the size or the
\* contents of the vertex buffer or of the index buffer.
C6_BuffersImmutable ==
    [][initialized =>
          /\ m_CubeVertexBuffer' = m_CubeVertexBuffer
          /\ m_CubeIndexBuffer' = m_CubeIndexBuffer
          /\ deviceObjects'[m_CubeVertexBuffer] = deviceObjects[m_CubeVertexBuffer]
          /\ deviceObjects'[m_CubeIndexBuffer] = deviceObjects[m_CubeIndexBuffer]]_vars

\* Update and Render have both run and the uniform buffer was written
C6_Witness ==
    /\ initialized
    /\ lastUpdate.time > 0
    /\ Rendered
    /\ deviceObjects[m_VSConstants].Data # <<>>
    /\ deviceObjects[m_CubeVertexBuffer].Data = CubeVerts
    /\ deviceObjects[m_CubeIndexBuffer].Data = Indices

\* C7: the calls of a frame are, in this order and once each: ClearRenderTarget,
\* ClearDepthStencil, the uniform write (map, assign, unmap), SetVertexBuffers,
\* SetIndexBuffer, SetPipelineState, CommitShaderResources, DrawIndexed.
C7_FrameCallOrder ==
    Rendered =>
        OpsOf(frameCalls) =
            <<"ClearRenderTarget", "ClearDepthStencil",
              "MapBuffer", "WriteMapped", "UnmapBuffer",
              "SetVertexBuffers", "SetIndexBuffer",
              "SetPipelineState", "CommitShaderResources", "DrawIndexed">>

C7_Witness ==
    /\ Rendered
    /\ Len(frameCalls) = 10
    /\ frameCalls[10].op = "DrawIndexed"
    /\ lastUpdate.time >= 0

\* C8: a step that leaves a new frame wrote the matrix of the last Update into
\* the uniform buffer, and a step that is no Update leaves m_WorldViewProjMatrix
\* unchanged.
C8_RenderWritesLastUpdate ==
    [][/\ frameCalls' # frameCalls =>
              /\ FrameCalls("WriteMapped")'[1].data = lastUpdate.wvp
              /\ FrameCalls("WriteMapped")'[1].buffer = m_VSConstants
              /\ deviceObjects'[m_VSConstants].Data = lastUpdate.wvp
       /\ lastUpdate' = lastUpdate =>
              m_WorldViewProjMatrix' = m_WorldViewProjMatrix]_vars

\* a frame that wrote the matrix of an Update later than the first frame
C8_Witness ==
    /\ Rendered
    /\ lastUpdate.time = 1000
    /\ lastUpdate.desc.PreTransform = "ROTATE_180"
    /\ deviceObjects[m_VSConstants].Data = lastUpdate.wvp
    /\ m_WorldViewProjMatrix = lastUpdate.wvp

\* C9: Initialize makes its calls in dependency order: the base class first, the
\* uniform buffer and the pipeline state before the 'Constants' variable is set,
\* the shader resource binding after it, then the vertex buffer, then the index
\* buffer; and every handle a frame binds names an object of the right kind.
C9_InitOrder ==
    initialized =>
        /\ InitPos("SampleBase::Initialize", "InitInfo") = 1
        /\ 1 < InitPos("CreateBuffer", "VS constants CB")
        /\ InitPos("CreateBuffer", "VS constants CB")
               < InitPos("SetStaticVariable", "Constants")
        /\ 1 < InitPos("CreateGraphicsPipelineState", "Cube PSO")
        /\ InitPos("CreateGraphicsPipelineState", "Cube PSO")
               < InitPos("SetStaticVariable", "Constants")
        /\ InitPos("SetStaticVariable", "Constants")
               < InitPos("CreateShaderResourceBinding", "Cube PSO")
        /\ InitPos("CreateShaderResourceBinding", "Cube PSO")
               < InitPos("CreateBuffer", "Cube vertex buffer")
        /\ InitPos("CreateBuffer", "Cube vertex buffer")
               < InitPos("CreateBuffer", "Cube index buffer")
        /\ deviceObjects[m_pSRB].Bound["Constants"] = m_VSConstants
        /\ Rendered =>
               /\ IsObject(FrameCalls("MapBuffer")[1].buffer, "Buffer")
               /\ IsObject(FrameCalls("SetVertexBuffers")[1].buffers[1], "Buffer")
               /\ IsObject(FrameCalls("SetIndexBuffer")[1].buffer, "Buffer")
               /\ IsObject(FrameCalls("SetPipelineState")[1].pso, "PSO")
               /\ IsObject(FrameCalls("CommitShaderResources")[1].srb, "SRB")

C9_Witness ==
    /\ initialized
    /\ Len(initCalls) = 9
    /\ Rendered
    /\ lastUpdate.time = 0
    /\ IsObject(m_pSRB, "SRB")

\* C10: the draw stays inside the uploaded data: the number of indices drawn is
\* the number of entries of the bound index buffer, 144, a multiple of 3, and
\* every entry is a position of the 54-element vertex buffer, 0..53.
C10_DrawInsideData ==
    Rendered =>
        LET n == FrameCalls("DrawIndexed")[1].attrs.NumIndices
            ib == deviceObjects[FrameCalls("SetIndexBuffer")[1].buffer]
            vb == deviceObjects[FrameCalls("SetVertexBuffers")[1].buffers[1]]
        IN  /\ n = 144
            /\ n = Len(ib.Data)
            /\ n = Len(Indices)
            /\ n % 3 = 0
            /\ Len(vb.Data) = 54
            /\ \A i \in 1..Len(ib.Data) : ib.Data[i] \in 0..53
            /\ \A i \in 1..Len(Indices) : Indices[i] \in 0..(Len(CubeVerts) - 1)

C10_Witness ==
    /\ Rendered
    /\ deviceObjects[FrameCalls("SetIndexBuffer")[1].buffer].Data[144] = 47
    /\ \E i \in 1..144 : deviceObjects[m_CubeIndexBuffer].Data[i] = 53

====
